---- MODULE Spec2Model ----
(***************************************************************************)
(* RPLIDAR A1 driver (class RPLidarA1 of 2dplot.py and 3dplot.py), the     *)
(* serial transport it talks to, and the callers of the driver: a caller   *)
(* that invokes the public operations in any order, and main() of          *)
(* 3dplot.py with its scan_worker thread and update_graph callback.        *)
(*                                                                         *)
(* Bytes are naturals in 0..255; a bytes object is a sequence of bytes     *)
(* (Python's data[i] is data[i+1] here).  A Python float that results from *)
(* dividing an integer is kept exactly, as the fraction [n, d].            *)
(***************************************************************************)
EXTENDS Integers, Sequences, FiniteSets, TLC

VARIABLES
    drv,      \* which copy of the driver runs: "2d" (2dplot.py) or "3d" (3dplot.py)
    reply,    \* what the device answers: reply.info is its 20-byte GetInfo payload,
              \* reply.health its 3-byte GetHealth payload
    serial,   \* self.serial: "none" (None), "open", "closed"
    rx,       \* the transport's input buffer: bytes received and not yet read
    line,     \* bytes the device has sent that have not yet arrived in rx
    tx,       \* every byte the driver has written to the transport, in order
    dev,      \* the device: "idle" or "scanning"
    sent,     \* history: the scan frames the device has sent, in order
    err,      \* outcome of the last driver call: "ok", "none" (returned None) or "raise"
    ret,      \* the dict the last get_info() / get_health() returned, or NoRet
    lastCall, \* history: the driver operation called last
    lastDesc, \* history: what the last _read_descriptor() read
    session,  \* history: "Scanning" from a start_scan() that returned until a
              \* stop_scan() or reset() returns, else "Idle"
    startFailed, \* history: the last start_scan() raised
    ops,      \* number of driver calls made so far (bounded by MaxOps)
    gen,      \* read_scan_data(): "idle", or "running" inside next()
    tick,     \* flips on every read attempt of read_scan_data() that finds no byte
    lastRead, \* history: what the last serial.read(5) of read_scan_data() returned
    reads,    \* history: every 5-byte result of serial.read(5) in read_scan_data()
    out,      \* history: every sample read_scan_data() has yielded, in order
    pc,       \* main() of 3dplot.py: the statement it is at ("off": main() not run)
    running,  \* the global flag  running
    wpc,      \* scan_worker: "unstarted", "loop", "next", "acquire", "append_a",
              \* "append_d", "append_q", "done"
    wdata,    \* scan_worker's local  data
    lock,     \* data_lock: "free", or the thread holding it ("worker", "update")
    lidar_data, \* the global dict of deques  angles, distances, qualities
    upc,      \* update_graph: "idle", "locked" and "copied" inside  with data_lock,
              \* "stats" after it
    gens,     \* the two copies of read_scan_data() run side by side on one
              \* transport, each pulled in two ways: for each of the four runs,
              \* where its generator stands ("new", "looping", "yielded")
    outs      \* history: for each of the four runs, the samples yielded, in order

portVars == <<serial, rx, line, tx, dev>>
callVars == <<err, ret, lastCall, lastDesc, session, startFailed, ops>>
genVars == <<gen, tick, lastRead, reads, out>>

mainVars == <<pc, running, wpc, wdata, lock, lidar_data, upc>>

pairVars == <<gens, outs>>

vars == <<drv, reply, pairVars, portVars, sent, callVars, genVars, mainVars>>

(***************************************************************************)
(* Bounds of the model.                                                    *)
(***************************************************************************)
\* frames in one input of the decoder specification
MaxFrames == 3
\* driver calls a caller makes
MaxOps == 4
\* scan frames the device sends in one run of the driver
MaxSent == 2
\* the length of the deques of lidar_data (collections.deque(maxlen=1800) in
\* 3dplot.py), scaled down so that the device's frames fill and overflow them
BufMaxLen == 2
\* scan frames the device sends during one run of main()
MaxMainSent == 3

(***************************************************************************)
(* Protocol constants of class RPLidarA1.                                  *)
(***************************************************************************)
SYNC_BYTE == 165
SYNC_BYTE2 == 90
GET_INFO == 80
GET_HEALTH == 82
STOP == 37
RESET == 64
SCAN == 32
EXPRESS_SCAN == 130
DESCRIPTOR_LEN == 7
INFO_LEN == 20
HEALTH_LEN == 3
\* the size of one scan frame: serial.read(5), len(data) == 5
FRAME_LEN == 5

Bytes == 0..255

Min(a, b) == IF a < b THEN a ELSE b

(***************************************************************************)
(* Python's integer operators, bit by bit.                                 *)
(***************************************************************************)
RECURSIVE BitOr(_, _)
BitOr(a, b) ==
    IF a = 0 THEN b
    ELSE IF b = 0 THEN a
    ELSE (IF a % 2 = 1 \/ b % 2 = 1 THEN 1 ELSE 0) + 2 * BitOr(a \div 2, b \div 2)

RECURSIVE BitAnd(_, _)
BitAnd(a, b) ==
    IF a = 0 \/ b = 0 THEN 0
    ELSE (IF a % 2 = 1 /\ b % 2 = 1 THEN 1 ELSE 0) + 2 * BitAnd(a \div 2, b \div 2)

RECURSIVE Shl(_, _)
Shl(a, n) == IF n = 0 THEN a ELSE Shl(2 * a, n - 1)

RECURSIVE Shr(_, _)
Shr(a, n) == IF n = 0 THEN a ELSE Shr(a \div 2, n - 1)

\* x / 64.0, x / 4.0: true division of an integer, kept as an exact fraction
FloatDiv(x, d) == [n |-> x, d |-> d]

\* the comparison  f > 0  of a float with zero
FloatGtZero(f) == f.n > 0

(***************************************************************************)
(* The body of read_scan_data() for one 5-byte read: the fields it parses  *)
(* and the test that decides whether a sample is yielded.                  *)
(***************************************************************************)
ParseQuality(data) == Shr(data[1], 2)

\* start_flag taken from the check bit (bit 1) instead of bit 0
ParseStartFlagCheckBit(data) == BitAnd(data[1], 2) = 2

ParseStartFlag(data) == BitAnd(data[1], 1) = 1

ParseAngle(data) == FloatDiv(Shr(BitOr(Shl(data[3], 8), data[2]), 1), 64)

\* the two distance bytes taken in the wrong order
ParseDistanceSwapped(data) == FloatDiv(BitOr(Shl(data[4], 8), data[5]), 4)

ParseDistance(data) == FloatDiv(BitOr(Shl(data[5], 8), data[4]), 4)

\* the distance test left out of the filter
AcceptsQualityOnly(data) == ParseQuality(data) > 0

Accepts(data) == ParseQuality(data) > 0 /\ FloatGtZero(ParseDistance(data))

\* the dict 2dplot.py yields
Sample2d(data) ==
    [angle |-> ParseAngle(data), distance |-> ParseDistance(data),
     quality |-> ParseQuality(data), start_flag |-> ParseStartFlag(data)]

\* the same body in the copy of the driver in 3dplot.py
ParseQuality3d(data) == Shr(data[1], 2)

\* a copy that leaves out the shift by one that drops the check bit
ParseAngle3dUnshifted(data) == FloatDiv(BitOr(Shl(data[3], 8), data[2]), 64)

ParseAngle3d(data) == FloatDiv(Shr(BitOr(Shl(data[3], 8), data[2]), 1), 64)

ParseDistance3d(data) == FloatDiv(BitOr(Shl(data[5], 8), data[4]), 4)

Accepts3d(data) == ParseQuality3d(data) > 0 /\ FloatGtZero(ParseDistance3d(data))

\* the dict 3dplot.py yields
Sample3d(data) ==
    [angle |-> ParseAngle3d(data), distance |-> ParseDistance3d(data),
     quality |-> ParseQuality3d(data)]

MakeSample(d, data) == IF d = "2d" THEN Sample2d(data) ELSE Sample3d(data)

\* if quality > 0 and distance > 0, in the copy d of the driver
AcceptsBy(d, data) == IF d = "2d" THEN Accepts(data) ELSE Accepts3d(data)

(***************************************************************************)
(* serial.read(n): the first n bytes of the input buffer, or all of it     *)
(* when the timeout expires with fewer than n bytes received.              *)
(***************************************************************************)
ReadData(buf, n) == SubSeq(buf, 1, Min(n, Len(buf)))

ReadRest(buf, n) == SubSeq(buf, Min(n, Len(buf)) + 1, Len(buf))

\* a bug that leaves the loop when nothing is yielded
AfterNoYieldStop == "idle"

\* while True: an iteration that yields nothing is followed by the next one
AfterNoYield == "running"

NoRet == [none |-> TRUE]

\* the copies of the driver, the ways a caller pulls samples (one generator
\* kept and iterated, or next(read_scan_data()) on a new generator for every
\* sample, as update() and scan_worker do), and the four runs
Copies == {"2d", "3d"}

Pulls == {"kept", "fresh"}

Runs == Copies \X Pulls

\* the side-by-side runs not started
PairOff ==
    /\ gens = [r \in Runs |-> "new"]
    /\ outs = [r \in Runs |-> <<>>]

\* the globals of 3dplot.py as the module sets them, main() not running
MainOff ==
    /\ pc = "off"
    /\ running = TRUE
    /\ wpc = "unstarted"
    /\ wdata = NoRet
    /\ lock = "free"
    /\ lidar_data = [angles |-> <<>>, distances |-> <<>>, qualities |-> <<>>]
    /\ upc = "idle"

(***************************************************************************)
(* next(read_scan_data()): the caller enters the generator ...             *)
(***************************************************************************)
\* how many of the n bytes on the line arrive before a read of a driver call
\* returns: none, all, or one of a few partial amounts
PartialArrivals == {2, 7}

Arrivals(n) == {k \in 0..n : k = 0 \/ k = n \/ k \in PartialArrivals}

EnterNext ==
    /\ gen = "idle"
    /\ gen' = "running"
    /\ lastCall' = "read_scan_data"
    /\ UNCHANGED <<drv, reply, pairVars, portVars, sent, err, ret, lastDesc, session, startFailed,
                   tick, lastRead, reads, out>>

Pull == EnterNext /\ ops' = ops /\ UNCHANGED mainVars

(***************************************************************************)
(* ... and the generator runs one iteration of its  while True  loop: k    *)
(* more bytes (k in K) arrive before the read returns; a full read is      *)
(* parsed and yielded if accepted (next() returns), anything else loops.   *)
(***************************************************************************)
ReadStep(K) ==
    /\ gen = "running"
    /\ serial = "open"
    /\ \E k \in K :
         LET buf  == rx \o SubSeq(line, 1, k)
             data == ReadData(buf, FRAME_LEN)
         IN  /\ line' = SubSeq(line, k + 1, Len(line))
             /\ rx' = ReadRest(buf, FRAME_LEN)
             /\ lastRead' = data
             /\ reads' = IF Len(data) = FRAME_LEN THEN Append(reads, data) ELSE reads
             /\ IF Len(data) = FRAME_LEN /\ AcceptsBy(drv, data)
                  THEN /\ out' = Append(out, MakeSample(drv, data))
                       /\ gen' = "idle"
                  ELSE /\ out' = out
                       /\ gen' = AfterNoYield
    /\ tick' = IF rx = <<>> /\ rx' = <<>> /\ lastRead' = <<>> THEN 1 - tick ELSE tick
    /\ UNCHANGED <<drv, reply, pairVars, serial, tx, dev, sent, callVars>>

\* any number of the bytes on the line arrive
ReadAttempt == ReadStep(0..Len(line)) /\ UNCHANGED mainVars

(***************************************************************************)
(* The decoder on its own: the input buffer holds whole frames, every      *)
(* read of 5 bytes is served in full, and the caller pulls sample after    *)
(* sample.                                                                 *)
(***************************************************************************)
\* byte values tried in every position together
FewBytes == {0, 1, 5, 255}

\* the frames of the spec's concrete cases, a zero-distance frame and a plain one
Case1Frame == <<1, 0, 32, 232, 3>>
Case2Frame == <<5, 64, 32, 232, 3>>
ZeroDistFrame == <<5, 64, 32, 0, 0>>
PlainFrame == <<62, 129, 90, 1, 0>>

StreamFrames == {Case1Frame, Case2Frame, ZeroDistFrame, PlainFrame}

\* every value of each byte, the other bytes taken from two values each
SweepFrames ==
    {<<b0, b1, b2, b3, b4>> : b0 \in Bytes, b1 \in {0, 64}, b2 \in {0, 32},
                              b3 \in {0, 232}, b4 \in {0, 3}}
    \cup {<<5, b, c, 232, 3>> : b \in Bytes, c \in {0, 1, 32, 127, 128, 255}}
    \cup {<<5, c, b, 232, 3>> : b \in Bytes, c \in {0, 1, 64, 127, 128, 255}}
    \cup {<<5, 64, 32, b, c>> : b \in Bytes, c \in {0, 1, 3, 127, 128, 255}}
    \cup {<<5, 64, 32, c, b>> : b \in Bytes, c \in {0, 1, 232, 127, 128, 255}}
    \cup {<<b0, b1, b2, b3, b4>> : b0 \in FewBytes, b1 \in FewBytes, b2 \in FewBytes,
                                   b3 \in FewBytes, b4 \in FewBytes}

RECURSIVE Flatten(_)
Flatten(fs) == IF fs = <<>> THEN <<>> ELSE Head(fs) \o Flatten(Tail(fs))

\* the frames fed through a chunking transport: one rejected, two accepted
ChunkFrames == {Case1Frame, Case2Frame, PlainFrame}

FrameSeqs(F, n) == UNION {[1..m -> F] : m \in 0..n}

\* the payloads of the device's answers to GetInfo and GetHealth
InfoPayload == <<18, 5, 1, 0, 1, 2, 3, 4, 5, 6, 7, 8, 9, 10, 11, 12, 13, 14, 15, 16>>
HealthPayload == <<1, 2, 3>>

\* the answers of the device the driver is run against
DeviceReply == [info |-> InfoPayload, health |-> HealthPayload]

InitCommon ==
    /\ drv \in {"2d", "3d"}
    /\ reply = DeviceReply
    /\ serial = "open"
    /\ tx = <<>>
    /\ dev = "scanning"
    /\ err = "ok"
    /\ ret = NoRet
    /\ lastCall = "start_scan"
    /\ lastDesc = <<>>
    /\ session = "Scanning"
    /\ startFailed = FALSE
    /\ ops = 0
    /\ gen = "idle"
    /\ tick = 0
    /\ lastRead = <<>>
    /\ reads = <<>>
    /\ out = <<>>
    /\ MainOff
    /\ PairOff

InitDecode ==
    /\ InitCommon
    /\ sent \in {<<f>> : f \in SweepFrames} \cup FrameSeqs(StreamFrames, MaxFrames)
    /\ rx = Flatten(sent)
    /\ line = <<>>

NextDecode == Pull \/ ReadAttempt

SpecDecode == InitDecode /\ [][NextDecode]_vars

(***************************************************************************)
(* The decoder fed by a transport that delivers the same frames in chunks  *)
(* of any size: the frames are on the line, and any number of their bytes  *)
(* arrive before each read returns.                                        *)
(***************************************************************************)
InitChunk ==
    /\ InitCommon
    /\ sent \in FrameSeqs(ChunkFrames, MaxFrames)
    /\ rx = <<>>
    /\ line = Flatten(sent)

SpecChunk == InitChunk /\ [][NextDecode]_vars

\* the generator's loop is scheduled as long as it is running
SpecChunkFair == SpecChunk /\ WF_vars(ReadAttempt)

(***************************************************************************)
(* The two copies of read_scan_data() side by side.  Neither copy does     *)
(* anything to the transport but serial.read(5) at the top of its loop, so *)
(* one transport behaviour is one sequence of read results, and the i-th   *)
(* result is what the i-th loop iteration of every run gets.               *)
(***************************************************************************)
\* what one iteration of the loop of copy c yields from the read result data
BodyYields(c, data) ==
    IF Len(data) = FRAME_LEN /\ AcceptsBy(c, data) THEN <<MakeSample(c, data)>> ELSE <<>>

\* where the generator that makes a run's next read stands when it reads.
\* The generator's frame holds no local that is read before it is assigned,
\* so a started generator is at the top of  while True  whatever came before.
AtRead(p, pos) ==
    CASE pos = "looping" -> "looping"  \* inside next(): the loop goes round
      [] pos = "new" -> "looping"      \* next() starts the generator
      [] pos = "yielded" /\ p = "kept" -> "looping"
                                       \* next() resumes it after its yield
      [] pos = "yielded" /\ p = "fresh" -> "looping"
                                       \* it is dropped; next() starts a new one

\* one serial.read(5), any number of the bytes on the line arriving first,
\* and the iteration each run makes of it
PairRead ==
    /\ serial = "open"
    /\ \E k \in 0..Len(line) :
         LET buf  == rx \o SubSeq(line, 1, k)
             data == ReadData(buf, FRAME_LEN)
             ys   == [c \in Copies |-> BodyYields(c, data)]
         IN  /\ line' = SubSeq(line, k + 1, Len(line))
             /\ rx' = ReadRest(buf, FRAME_LEN)
             /\ lastRead' = data
             /\ reads' = IF Len(data) = FRAME_LEN THEN Append(reads, data) ELSE reads
             /\ outs' = [r \in Runs |-> outs[r] \o ys[r[1]]]
             /\ gens' = [r \in Runs |->
                           IF ys[r[1]] # <<>> THEN "yielded" ELSE AtRead(r[2], gens[r])]
    /\ tick' = IF rx = <<>> /\ rx' = <<>> /\ lastRead' = <<>> THEN 1 - tick ELSE tick
    /\ UNCHANGED <<drv, reply, serial, tx, dev, sent, callVars, gen, out, mainVars>>

\* one frame of the sweep received whole, or a few frames on the line that
\* arrive in chunks of any size; drv names no run here, both copies run
InitPair ==
    /\ InitCommon
    /\ drv = "2d"
    /\ \/ /\ sent \in {<<f>> : f \in SweepFrames}
          /\ rx = Flatten(sent)
          /\ line = <<>>
       \/ /\ sent \in FrameSeqs(ChunkFrames, MaxFrames)
          /\ rx = <<>>
          /\ line = Flatten(sent)

NextPair == PairRead

SpecPair == InitPair /\ [][NextPair]_vars

(***************************************************************************)
(* The device at the other end of the transport, as the driver sees it: it *)
(* answers a request with the 7-byte descriptor and the payload, starts    *)
(* sending scan frames on Scan and ceases on Stop or Reset.                *)
(***************************************************************************)
ScanDescriptor == <<165, 90, 5, 0, 0, 64, 129>>
InfoDescriptor == <<165, 90, 20, 0, 0, 0, 4>>
HealthDescriptor == <<165, 90, 3, 0, 0, 0, 6>>

DevReply(cmd) ==
    CASE cmd = SCAN -> ScanDescriptor
      [] cmd = GET_INFO -> InfoDescriptor \o reply.info
      [] cmd = GET_HEALTH -> HealthDescriptor \o reply.health
      [] OTHER -> <<>>

DevAfter(cmd, d) ==
    CASE cmd = SCAN -> "scanning"
      [] cmd = STOP -> "idle"
      [] cmd = RESET -> "idle"
      [] OTHER -> d

\* a scanning device sends its next frame, one of F, at most n in all
DevEmit(n, F) ==
    /\ dev = "scanning"
    /\ Len(sent) < n
    /\ \E f \in F :
         /\ line' = line \o f
         /\ sent' = Append(sent, f)
    /\ UNCHANGED <<drv, reply, pairVars, serial, rx, tx, dev, callVars, genVars, mainVars>>

\* for a caller of the driver every frame is the accepted one of the concrete case
DevEmitFrame == DevEmit(MaxSent, {Case2Frame})

DevEmitFrameMain == DevEmit(MaxMainSent, {Case1Frame, Case2Frame, PlainFrame})

(***************************************************************************)
(* The driver's operations.  Each is the whole method: the request it      *)
(* writes, the device's answer put on the line, the bytes that arrive      *)
(* before each read returns (any number k of those on the line), and the   *)
(* result.  A method called with self.serial None or closed raises at its  *)
(* first use of the port.                                                  *)
(***************************************************************************)
\* the two bytes packed in the wrong order
RequestSwapped(cmd) == <<cmd, SYNC_BYTE>>

\* _send_command: req = struct.pack('<BB', SYNC_BYTE, cmd)
Request(cmd) == <<SYNC_BYTE, cmd>>

\* the characters of the digits 0..15
HexDigits == <<"0", "1", "2", "3", "4", "5", "6", "7", "8", "9", "a", "b", "c", "d", "e", "f">>

\* bytes.hex(): two hexadecimal digits per byte, high digit first; a string
\* is the sequence of its characters
RECURSIVE Hex(_)
Hex(bs) == IF bs = <<>> THEN <<>>
           ELSE <<HexDigits[(Head(bs) \div 16) + 1], HexDigits[(Head(bs) % 16) + 1]>>
                \o Hex(Tail(bs))

\* f"{n}": the decimal digits of n
RECURSIVE Str(_)
Str(n) == IF n < 10 THEN <<HexDigits[n + 1]>>
          ELSE Str(n \div 10) \o <<HexDigits[(n % 10) + 1]>>

\* the bytes a field of a struct format takes
FieldLen(c) == CASE c = "B" -> 1 [] c = "H" -> 2 [] c = "16s" -> 16

\* struct.unpack('<...', data), the format given field by field: B is one
\* byte, H two bytes with the low one first, 16s sixteen bytes as they are;
\* with '<' no padding lies between the fields
RECURSIVE Unpack(_, _)
Unpack(fmt, data) ==
    IF fmt = <<>> THEN <<>>
    ELSE LET c == Head(fmt)
             v == CASE c = "B" -> data[1]
                    [] c = "H" -> BitOr(data[1], Shl(data[2], 8))
                    [] c = "16s" -> SubSeq(data, 1, 16)
         IN  <<v>> \o Unpack(Tail(fmt), SubSeq(data, FieldLen(c) + 1, Len(data)))

\* the firmware fields taken in the wrong order
InfoDictSwapped(data) ==
    LET t == Unpack(<<"B", "B", "B", "B", "16s">>, data)
    IN  [model |-> t[1],
         firmware |-> Str(t[2]) \o <<".">> \o Str(t[3]),
         hardware |-> t[4],
         serial_number |-> Hex(t[5])]

\* model, firmware_minor, firmware_major, hardware, serial_number =
\* struct.unpack('<BBBB16s', data) and the dict get_info() builds from them
InfoDict(data) ==
    LET t == Unpack(<<"B", "B", "B", "B", "16s">>, data)
        model == t[1]
        firmware_minor == t[2]
        firmware_major == t[3]
        hardware == t[4]
        serial_number == t[5]
    IN  [model |-> model,
         firmware |-> Str(firmware_major) \o <<".">> \o Str(firmware_minor),
         hardware |-> hardware,
         serial_number |-> Hex(serial_number)]

\* status, error_code = struct.unpack('<BH', data) and the dict get_health()
\* builds from them
HealthDict(data) ==
    LET t == Unpack(<<"B", "H">>, data)
    IN  [status |-> t[1], error_code |-> t[2]]

\* the test of the sync bytes left out
BadSyncUnchecked(descriptor) == FALSE

\* start_scan's test of the descriptor it read
BadSync(descriptor) == descriptor[1] # SYNC_BYTE \/ descriptor[2] # SYNC_BYTE2

PortFails(call) ==
    /\ serial # "open"
    /\ err' = "raise"
    /\ ret' = NoRet
    /\ lastDesc' = <<>>
    /\ UNCHANGED <<portVars, session, startFailed>>

\* the dict built from the payload of a request
ReplyDict(cmd, data) == IF cmd = GET_INFO THEN InfoDict(data) ELSE HealthDict(data)

\* get_info / get_health: request, descriptor, payload of n bytes
Query(cmd, n) ==
    /\ serial = "open"
    /\ tx' = tx \o Request(cmd)
    /\ dev' = DevAfter(cmd, dev)
    /\ UNCHANGED <<serial, session, startFailed>>
    /\ LET wire == line \o DevReply(cmd)
       IN  \E k1 \in Arrivals(Len(wire)) :
             LET buf   == rx \o SubSeq(wire, 1, k1)
                 desc  == ReadData(buf, DESCRIPTOR_LEN)
                 rest  == ReadRest(buf, DESCRIPTOR_LEN)
                 wire1 == SubSeq(wire, k1 + 1, Len(wire))
             IN  /\ lastDesc' = desc
                 /\ IF Len(desc) # DESCRIPTOR_LEN
                      THEN /\ err' = "raise"
                           /\ ret' = NoRet
                           /\ rx' = rest
                           /\ line' = wire1
                      ELSE \E k2 \in Arrivals(Len(wire1)) :
                             LET buf2 == rest \o SubSeq(wire1, 1, k2)
                                 data == ReadData(buf2, n)
                             IN  /\ rx' = ReadRest(buf2, n)
                                 /\ line' = SubSeq(wire1, k2 + 1, Len(wire1))
                                 /\ IF Len(data) = n
                                      THEN err' = "ok" /\ ret' = ReplyDict(cmd, data)
                                      ELSE err' = "none" /\ ret' = NoRet

Connect ==
    /\ serial # "open"
    /\ lastCall' = "connect"
    /\ ops' = ops + 1
    /\ ret' = NoRet
    /\ UNCHANGED <<line, tx, dev, lastDesc, session, startFailed>>
    /\ \/ serial' = "open" /\ rx' = <<>> /\ err' = "ok"
       \/ UNCHANGED <<serial, rx>> /\ err' = "raise"

Disconnect ==
    /\ lastCall' = "disconnect"
    /\ ops' = ops + 1
    /\ serial' = IF serial = "none" THEN "none" ELSE "closed"
    /\ err' = "ok"
    /\ ret' = NoRet
    /\ UNCHANGED <<rx, line, tx, dev, lastDesc, session, startFailed>>

GetInfo ==
    /\ lastCall' = "get_info"
    /\ ops' = ops + 1
    /\ PortFails("get_info") \/ Query(GET_INFO, INFO_LEN)

GetHealth ==
    /\ drv = "2d"
    /\ lastCall' = "get_health"
    /\ ops' = ops + 1
    /\ PortFails("get_health") \/ Query(GET_HEALTH, HEALTH_LEN)

StartScan ==
    /\ lastCall' = "start_scan"
    /\ ops' = ops + 1
    /\ \/ PortFails("start_scan")
       \/ /\ serial = "open"
          /\ tx' = tx \o Request(SCAN)
          /\ dev' = DevAfter(SCAN, dev)
          /\ ret' = NoRet
          /\ serial' = serial
          /\ LET wire == line \o DevReply(SCAN)
             IN  \E k \in Arrivals(Len(wire)) :
                   LET buf  == rx \o SubSeq(wire, 1, k)
                       desc == ReadData(buf, DESCRIPTOR_LEN)
                   IN  /\ lastDesc' = desc
                       /\ rx' = ReadRest(buf, DESCRIPTOR_LEN)
                       /\ line' = SubSeq(wire, k + 1, Len(wire))
                       /\ IF Len(desc) # DESCRIPTOR_LEN \/ BadSync(desc)
                            THEN /\ err' = "raise"
                                 /\ startFailed' = TRUE
                                 /\ session' = session
                            ELSE /\ err' = "ok"
                                 /\ startFailed' = FALSE
                                 /\ session' = "Scanning"

\* stop_scan that discards the input buffer before it waits
StopScanFlushFirst ==
    /\ lastCall' = "stop_scan"
    /\ ops' = ops + 1
    /\ \/ PortFails("stop_scan")
       \/ /\ serial = "open"
          /\ tx' = tx \o Request(STOP)
          /\ dev' = DevAfter(STOP, dev)
          /\ \E k \in Arrivals(Len(line)) :
               /\ rx' = SubSeq(line, 1, k)
               /\ line' = SubSeq(line, k + 1, Len(line))
          /\ err' = "ok"
          /\ ret' = NoRet
          /\ session' = "Idle"
          /\ UNCHANGED <<serial, lastDesc, startFailed>>

\* stop_scan without  self.serial.reset_input_buffer()
StopScanNoFlush ==
    /\ lastCall' = "stop_scan"
    /\ ops' = ops + 1
    /\ \/ PortFails("stop_scan")
       \/ /\ serial = "open"
          /\ tx' = tx \o Request(STOP)
          /\ dev' = DevAfter(STOP, dev)
          /\ \E k \in Arrivals(Len(line)) :
               /\ rx' = rx \o SubSeq(line, 1, k)
               /\ line' = SubSeq(line, k + 1, Len(line))
          /\ err' = "ok"
          /\ ret' = NoRet
          /\ session' = "Idle"
          /\ UNCHANGED <<serial, lastDesc, startFailed>>

StopScan ==
    /\ lastCall' = "stop_scan"
    /\ ops' = ops + 1
    /\ \/ PortFails("stop_scan")
       \/ /\ serial = "open"
          /\ tx' = tx \o Request(STOP)
          /\ dev' = DevAfter(STOP, dev)
          /\ \E k \in Arrivals(Len(line)) : line' = SubSeq(line, k + 1, Len(line))
          /\ rx' = <<>>
          /\ err' = "ok"
          /\ ret' = NoRet
          /\ session' = "Idle"
          /\ UNCHANGED <<serial, lastDesc, startFailed>>

Reset ==
    /\ drv = "2d"
    /\ lastCall' = "reset"
    /\ ops' = ops + 1
    /\ \/ PortFails("reset")
       \/ /\ serial = "open"
          /\ tx' = tx \o Request(RESET)
          /\ dev' = DevAfter(RESET, dev)
          /\ \E k \in Arrivals(Len(line)) :
               /\ rx' = rx \o SubSeq(line, 1, k)
               /\ line' = SubSeq(line, k + 1, Len(line))
          /\ err' = "ok"
          /\ ret' = NoRet
          /\ session' = "Idle"
          /\ UNCHANGED <<serial, lastDesc, startFailed>>

\* read_scan_data() with self.serial None or closed: self.serial.read raises
\* out of next()
ReadFail ==
    /\ gen = "running"
    /\ serial # "open"
    /\ gen' = "idle"
    /\ err' = "raise"
    /\ UNCHANGED <<drv, reply, pairVars, portVars, sent, ret, lastCall, lastDesc, session, startFailed,
                   ops, tick, lastRead, reads, out, mainVars>>

(***************************************************************************)
(* A caller that invokes the driver's operations in any order, one at a    *)
(* time (it makes no call while it is inside next()).                      *)
(***************************************************************************)
Call(Op) ==
    /\ gen = "idle"
    /\ ops < MaxOps
    /\ Op
    /\ UNCHANGED <<drv, reply, pairVars, sent, genVars, mainVars>>

CallPull == ops < MaxOps /\ EnterNext /\ ops' = ops + 1 /\ UNCHANGED mainVars

\* the read attempts of a pull made between driver calls: the read times out
\* with nothing more received, or everything on the line arrives first
ReadAttemptCoarse == ReadStep({0, Len(line)}) /\ UNCHANGED mainVars

CallConnect == Call(Connect)
CallDisconnect == Call(Disconnect)
CallGetInfo == Call(GetInfo)
CallGetHealth == Call(GetHealth)
CallStartScan == Call(StartScan)
CallStopScan == Call(StopScan)
CallReset == Call(Reset)

Init ==
    /\ drv \in {"2d", "3d"}
    /\ reply = DeviceReply
    /\ serial = "none"
    /\ rx = <<>>
    /\ line = <<>>
    /\ tx = <<>>
    /\ dev = "idle"
    /\ sent = <<>>
    /\ err = "ok"
    /\ ret = NoRet
    /\ lastCall = "init"
    /\ lastDesc = <<>>
    /\ session = "Idle"
    /\ startFailed = FALSE
    /\ ops = 0
    /\ gen = "idle"
    /\ tick = 0
    /\ lastRead = <<>>
    /\ reads = <<>>
    /\ out = <<>>
    /\ MainOff
    /\ PairOff

Next ==
    \/ CallConnect
    \/ CallDisconnect
    \/ CallGetInfo
    \/ CallGetHealth
    \/ CallStartScan
    \/ CallStopScan
    \/ CallReset
    \/ CallPull
    \/ ReadAttemptCoarse
    \/ ReadFail
    \/ DevEmitFrame

Spec == Init /\ [][Next]_vars

(***************************************************************************)
(* The reply decoders on their own: the port is open, the device answers   *)
(* with any payload, and the caller makes the first request on the port.   *)
(***************************************************************************)
\* serial numbers tried: all zero, all FF, and two with sixteen different bytes
SerialNumbers ==
    {[i \in 1..16 |-> 0], [i \in 1..16 |-> 255], [i \in 1..16 |-> i],
     [i \in 1..16 |-> 16 * i - 1]}

\* GetInfo payloads: every value of each of the first four bytes and of the
\* first and the last byte of the serial number
InfoPayloads ==
    {<<b, 5, 1, 0>> \o sn : b \in Bytes, sn \in SerialNumbers}
    \cup {<<18, b, 1, 0>> \o sn : b \in Bytes, sn \in SerialNumbers}
    \cup {<<18, 5, b, 0>> \o sn : b \in Bytes, sn \in SerialNumbers}
    \cup {<<18, 5, 1, b>> \o sn : b \in Bytes, sn \in SerialNumbers}
    \cup {<<18, a, b, 0>> \o [i \in 1..16 |-> 0] : a \in FewBytes, b \in FewBytes}
    \cup {<<18, 5, 1, 0>> \o [i \in 1..16 |-> IF i = j THEN b ELSE 0] :
            b \in Bytes, j \in {1, 16}}

\* GetHealth payloads: every value of each byte
HealthPayloads ==
    {<<b, c, d>> : b \in Bytes, c \in {0, 255}, d \in {0, 1}}
    \cup {<<b, c, d>> : b \in {0, 2}, c \in Bytes, d \in {0, 1, 255}}
    \cup {<<b, c, d>> : b \in {0, 2}, c \in {0, 1, 255}, d \in Bytes}

InitReply ==
    /\ drv \in {"2d", "3d"}
    /\ reply \in {[info |-> p, health |-> HealthPayload] : p \in InfoPayloads}
                \cup {[info |-> InfoPayload, health |-> h] : h \in HealthPayloads}
    /\ serial = "open"
    /\ rx = <<>>
    /\ line = <<>>
    /\ tx = <<>>
    /\ dev = "idle"
    /\ sent = <<>>
    /\ err = "ok"
    /\ ret = NoRet
    /\ lastCall = "connect"
    /\ lastDesc = <<>>
    /\ session = "Idle"
    /\ startFailed = FALSE
    /\ ops = 0
    /\ gen = "idle"
    /\ tick = 0
    /\ lastRead = <<>>
    /\ reads = <<>>
    /\ out = <<>>
    /\ MainOff
    /\ PairOff

FirstGetInfo == tx = <<>> /\ Call(GetInfo)

FirstGetHealth == tx = <<>> /\ Call(GetHealth)

NextReply == FirstGetInfo \/ FirstGetHealth

SpecReply == InitReply /\ [][NextReply]_vars

(***************************************************************************)
(* 3dplot.py: main(), the scan_worker thread it starts, and the            *)
(* update_graph callback served while app.run() runs.                      *)
(***************************************************************************)
\* a full buffer that drops the new item instead of its oldest
DequeAppendDropNew(q, x) == IF Len(q) < BufMaxLen THEN Append(q, x) ELSE q

\* collections.deque(maxlen=...).append(x): a full deque drops its oldest item
DequeAppend(q, x) == IF Len(q) < BufMaxLen THEN Append(q, x) ELSE Append(Tail(q), x)

MainStep(Op, onRaise, onReturn) ==
    /\ Op
    /\ pc' = IF err' = "raise" THEN onRaise ELSE onReturn
    /\ UNCHANGED <<drv, reply, pairVars, sent, genVars, running, wpc, wdata, lock, lidar_data, upc>>

MainConnect == pc = "connect" /\ MainStep(Connect, "finally", "get_info")

MainGetInfo == pc = "get_info" /\ MainStep(GetInfo, "finally", "start_scan")

MainStartScan == pc = "start_scan" /\ MainStep(StartScan, "finally", "thread_create")

\* scan_thread = Thread(target=scan_worker)
MainThreadCreate ==
    /\ pc = "thread_create"
    /\ wpc' = "created"
    /\ pc' = "thread_start"
    /\ UNCHANGED <<drv, reply, pairVars, portVars, sent, callVars, genVars, running, wdata, lock,
                   lidar_data, upc>>

\* scan_thread.start(), then the prints and app.run(debug=False)
MainThreadStart ==
    /\ pc = "thread_start"
    /\ wpc' = "loop"
    /\ pc' = "serve"
    /\ UNCHANGED <<drv, reply, pairVars, portVars, sent, callVars, genVars, running, wdata, lock,
                   lidar_data, upc>>

\* KeyboardInterrupt (Ctrl+C) or an exception of app.run() anywhere in the try
\* block: the except clause prints and the finally clause runs
MainInterrupt ==
    /\ pc \in {"connect", "get_info", "start_scan", "thread_create", "thread_start",
               "serve"}
    /\ pc' = "finally"
    /\ UNCHANGED <<drv, reply, pairVars, portVars, sent, callVars, genVars, running, wpc, wdata, lock,
                   lidar_data, upc>>

\* finally:  running = False;  if scan_thread: scan_thread.join()
MainFinally ==
    /\ pc = "finally"
    /\ running' = FALSE
    /\ pc' = IF wpc = "unstarted" THEN "stop_scan" ELSE "join"
    /\ UNCHANGED <<drv, reply, pairVars, portVars, sent, callVars, genVars, wpc, wdata, lock,
                   lidar_data, upc>>

\* a join() that returns at once, whether or not the worker has ended
MainJoinNoWait ==
    /\ pc = "join"
    /\ pc' = IF wpc = "created" THEN "crashed" ELSE "stop_scan"
    /\ UNCHANGED <<drv, reply, pairVars, portVars, sent, callVars, genVars, running, wpc, wdata,
                   lock, lidar_data, upc>>

\* join() returns when the worker has ended; on a thread that was never
\* started it raises RuntimeError, which leaves main()
MainJoin ==
    /\ pc = "join"
    /\ wpc \in {"done", "created"}
    /\ pc' = IF wpc = "done" THEN "stop_scan" ELSE "crashed"
    /\ UNCHANGED <<drv, reply, pairVars, portVars, sent, callVars, genVars, running, wpc, wdata, lock,
                   lidar_data, upc>>

\* an exception of stop_scan() in the finally clause leaves main()
MainStopScan == pc = "stop_scan" /\ MainStep(StopScan, "crashed", "disconnect")

MainDisconnect == pc = "disconnect" /\ MainStep(Disconnect, "crashed", "done")

\* while running:  ...  data = next(lidar_instance.read_scan_data())
WorkerLoop ==
    /\ wpc = "loop"
    /\ IF running
         THEN gen' = "running" /\ wpc' = "next"
         ELSE gen' = gen /\ wpc' = "done"
    /\ UNCHANGED <<drv, reply, pairVars, portVars, sent, callVars, tick, lastRead, reads, out, pc,
                   running, wdata, lock, lidar_data, upc>>

\* one iteration of the generator's loop inside next(); next() returns the
\* sample yielded
WorkerRead ==
    /\ wpc = "next"
    /\ ReadStep({0, Min(2, Len(line)), Len(line)})
    /\ IF gen' = "idle"
         THEN wdata' = out'[Len(out')] /\ wpc' = "acquire"
         ELSE wdata' = wdata /\ wpc' = wpc
    /\ UNCHANGED <<pc, running, lock, lidar_data, upc>>

\* serial.read raises inside next() (the transport failed):  except: break
WorkerReadRaises ==
    /\ wpc = "next"
    /\ gen' = "idle"
    /\ wpc' = "done"
    /\ UNCHANGED <<drv, reply, pairVars, portVars, sent, callVars, tick, lastRead, reads, out, pc,
                   running, wdata, lock, lidar_data, upc>>

\* a worker that goes on to its appends without taking data_lock
WorkerAcquireNoLock ==
    /\ wpc = "acquire"
    /\ lock' = lock
    /\ wpc' = "append_a"
    /\ UNCHANGED <<drv, reply, pairVars, portVars, sent, callVars, genVars, pc, running, wdata,
                   lidar_data, upc>>

\* with data_lock:
WorkerAcquire ==
    /\ wpc = "acquire"
    /\ lock = "free"
    /\ lock' = "worker"
    /\ wpc' = "append_a"
    /\ UNCHANGED <<drv, reply, pairVars, portVars, sent, callVars, genVars, pc, running, wdata,
                   lidar_data, upc>>

WorkerAppendAngle ==
    /\ wpc = "append_a"
    /\ lidar_data' = [lidar_data EXCEPT !.angles = DequeAppend(@, wdata.angle)]
    /\ wpc' = "append_d"
    /\ UNCHANGED <<drv, reply, pairVars, portVars, sent, callVars, genVars, pc, running, wdata, lock, upc>>

WorkerAppendDistance ==
    /\ wpc = "append_d"
    /\ lidar_data' = [lidar_data EXCEPT !.distances = DequeAppend(@, wdata.distance)]
    /\ wpc' = "append_q"
    /\ UNCHANGED <<drv, reply, pairVars, portVars, sent, callVars, genVars, pc, running, wdata, lock, upc>>

\* the last append, and the end of the with block releases the lock
WorkerAppendQuality ==
    /\ wpc = "append_q"
    /\ lidar_data' = [lidar_data EXCEPT !.qualities = DequeAppend(@, wdata.quality)]
    /\ lock' = "free"
    /\ wpc' = "loop"
    /\ UNCHANGED <<drv, reply, pairVars, portVars, sent, callVars, genVars, pc, running, wdata, upc>>

\* update_graph, called by the server while app.run() runs:  with data_lock:
UpdateEnter ==
    /\ pc = "serve"
    /\ upc = "idle"
    /\ lock = "free"
    /\ lock' = "update"
    /\ upc' = "locked"
    /\ UNCHANGED <<drv, reply, pairVars, portVars, sent, callVars, genVars, pc, running, wpc, wdata,
                   lidar_data>>

\* if len(lidar_data['angles']) == 0: the empty figure, and the with block
\* ends; else the three deques are copied with list(...)
UpdateCopy ==
    /\ upc = "locked"
    /\ IF lidar_data.angles = <<>>
         THEN lock' = "free" /\ upc' = "stats"
         ELSE lock' = lock /\ upc' = "copied"
    /\ UNCHANGED <<drv, reply, pairVars, portVars, sent, callVars, genVars, pc, running, wpc, wdata,
                   lidar_data>>

\* the copies are thinned out and converted and the figure is built, all
\* inside the with block; then the with block ends
UpdateExit ==
    /\ upc = "copied"
    /\ lock' = "free"
    /\ upc' = "stats"
    /\ UNCHANGED <<drv, reply, pairVars, portVars, sent, callVars, genVars, pc, running, wpc, wdata,
                   lidar_data>>

\* after the with block: the layout, then the statistics, which read
\* len(lidar_data['distances']) and list(lidar_data['distances']) again, and
\* the return
UpdateStats ==
    /\ upc = "stats"
    /\ upc' = "idle"
    /\ UNCHANGED <<drv, reply, pairVars, portVars, sent, callVars, genVars, pc, running, wpc, wdata,
                   lock, lidar_data>>

InitMain ==
    /\ drv = "3d"
    /\ reply = DeviceReply
    /\ serial = "none"
    /\ rx = <<>>
    /\ line = <<>>
    /\ tx = <<>>
    /\ dev = "idle"
    /\ sent = <<>>
    /\ err = "ok"
    /\ ret = NoRet
    /\ lastCall = "init"
    /\ lastDesc = <<>>
    /\ session = "Idle"
    /\ startFailed = FALSE
    /\ ops = 0
    /\ gen = "idle"
    /\ tick = 0
    /\ lastRead = <<>>
    /\ reads = <<>>
    /\ out = <<>>
    /\ pc = "connect"
    /\ running = TRUE
    /\ wpc = "unstarted"
    /\ wdata = NoRet
    /\ lock = "free"
    /\ lidar_data = [angles |-> <<>>, distances |-> <<>>, qualities |-> <<>>]
    /\ upc = "idle"
    /\ PairOff

NextMain ==
    \/ MainConnect
    \/ MainGetInfo
    \/ MainStartScan
    \/ MainThreadCreate
    \/ MainThreadStart
    \/ MainInterrupt
    \/ MainFinally
    \/ MainJoin
    \/ MainStopScan
    \/ MainDisconnect
    \/ WorkerLoop
    \/ WorkerRead
    \/ WorkerReadRaises
    \/ WorkerAcquire
    \/ WorkerAppendAngle
    \/ WorkerAppendDistance
    \/ WorkerAppendQuality
    \/ UpdateEnter
    \/ UpdateCopy
    \/ UpdateExit
    \/ UpdateStats
    \/ DevEmitFrameMain

SpecMain == InitMain /\ [][NextMain]_vars

\* the steps of the scan_worker thread that need nothing from outside the
\* program (a read that raises is the transport's doing)
WorkerRuns ==
    \/ WorkerLoop
    \/ WorkerRead
    \/ WorkerAcquire
    \/ WorkerAppendAngle
    \/ WorkerAppendDistance
    \/ WorkerAppendQuality

\* the steps of an update_graph call that has entered its with block
UpdateRuns == UpdateCopy \/ UpdateExit \/ UpdateStats

\* the finally clause of main()
MainCleansUp == MainFinally \/ MainJoin \/ MainStopScan \/ MainDisconnect

\* every thread that can run is scheduled: the worker, a callback in
\* progress, and main() once it is in its finally clause
SpecMainFair ==
    /\ SpecMain
    /\ WF_vars(WorkerRuns)
    /\ WF_vars(UpdateRuns)
    /\ WF_vars(MainCleansUp)

\* a page is open in a browser: its dcc.Interval (interval=500) calls
\* update_graph again and again while app.run() serves
SpecMainServed == SpecMainFair /\ WF_vars(UpdateEnter)

(***************************************************************************)
(* Claims about the decoder.  The reference decoding is stated with        *)
(* arithmetic on the bytes of the frame.                                   *)
(***************************************************************************)
RefQuality(f) == f[1] \div 4
RefNewScan(f) == f[1] % 2 = 1
RefAngleRaw(f) == (f[3] * 256 + f[2]) \div 2
RefDistanceRaw(f) == f[5] * 256 + f[4]
RefKept(f) == RefQuality(f) > 0 /\ RefDistanceRaw(f) > 0

KeptReads == SelectSeq(reads, RefKept)

\* C1: of the frames read in full, exactly those with quality > 0 and
\* distance_raw > 0 have been yielded, in the order read: the samples yielded
\* are the frames read with the filtered ones removed (a frame being dropped
\* leaves the generator in its loop, and no call has raised).
C1_FilterExact ==
    /\ Len(out) = Len(KeptReads)
    /\ \A i \in 1..Len(out) :
         /\ out[i].quality = RefQuality(KeptReads[i])
         /\ out[i].angle.n = RefAngleRaw(KeptReads[i])
         /\ out[i].distance.n = RefDistanceRaw(KeptReads[i])
    /\ (Len(lastRead) = FRAME_LEN /\ ~RefKept(lastRead)) => gen = "running"
    /\ err = "ok"

\* three frames read, the first (quality 0) and the third (distance 0) dropped
C1_Witness ==
    /\ reads = <<Case1Frame, Case2Frame, ZeroDistFrame>>
    /\ Len(out) = 1
    /\ gen = "running"

\* C2: every sample yielded carries the reference decoding of its frame:
\* quality = b0 >> 2, angle = (((b2 << 8) | b1) >> 1) / 64,
\* distance = ((b4 << 8) | b3) / 4, and in 2dplot.py start_flag = (b0 & 1 = 1).
C2_FieldsMatchReference ==
    \A i \in 1..Min(Len(out), Len(KeptReads)) :
        LET f == KeptReads[i]
            s == out[i]
        IN  /\ s.quality = RefQuality(f)
            /\ s.angle = [n |-> RefAngleRaw(f), d |-> 64]
            /\ s.distance = [n |-> RefDistanceRaw(f), d |-> 4]
            /\ drv = "2d" => s.start_flag = RefNewScan(f)

\* a frame whose every field has high and low bits set has been yielded by 2dplot.py
C2_Witness ==
    /\ drv = "2d"
    /\ reads = <<<<255, 255, 255, 255, 255>>>>
    /\ Len(out) = 1
    /\ out[1].start_flag

\* C3 as claimed: the single frame 05 40 20 E8 03 yields exactly one sample
\* with quality 1, angle_raw 2064 (32.25 degrees), distance_raw 1000 (250.0 mm)
\* and the new-scan flag set.
C3_ClaimedCase2 ==
    (reads = <<Case2Frame>> /\ rx = <<>> /\ line = <<>>) =>
        /\ Len(out) = 1
        /\ out[1].quality = 1
        /\ out[1].angle.n = 2064
        /\ out[1].angle.n * 100 = 3225 * out[1].angle.d
        /\ out[1].distance.n = 1000
        /\ out[1].distance.n = 250 * out[1].distance.d
        /\ drv = "2d" => out[1].start_flag = TRUE

\* C3 amended: the single frame 05 40 20 E8 03 yields exactly one sample with
\* quality 1, angle_raw ((0x20 << 8) | 0x40) >> 1 = 0x2040 >> 1 = 4128
\* (64.5 degrees), distance_raw 1000 (250.0 mm) and the new-scan flag set.
C3_ConcreteCase2 ==
    (reads = <<Case2Frame>> /\ rx = <<>> /\ line = <<>>) =>
        /\ Len(out) = 1
        /\ out[1].quality = 1
        /\ out[1].angle.n = 4128
        /\ out[1].angle.n * 10 = 645 * out[1].angle.d
        /\ out[1].distance.n = 1000
        /\ out[1].distance.n = 250 * out[1].distance.d
        /\ drv = "2d" => out[1].start_flag = TRUE

C3_Witness ==
    /\ drv = "2d"
    /\ reads = <<Case2Frame>>
    /\ rx = <<>>
    /\ Len(out) = 1
    /\ gen = "idle"

(***************************************************************************)
(* Claims about the decoder on a chunked transport.                        *)
(***************************************************************************)
KeptSent == SelectSeq(sent, RefKept)

\* C5: whatever the chunking, the samples yielded are the samples of the
\* unfiltered frames sent, in wire order: each sample is decoded from a frame
\* on its true 5-byte boundary, also after a read that timed out short.
C5_AlignmentKept ==
    /\ Len(out) <= Len(KeptSent)
    /\ \A i \in 1..Min(Len(out), Len(KeptSent)) :
         /\ out[i].quality = RefQuality(KeptSent[i])
         /\ out[i].angle.n = RefAngleRaw(KeptSent[i])
         /\ out[i].distance.n = RefDistanceRaw(KeptSent[i])

\* C7: a read attempt that returns fewer than 5 bytes yields no sample, raises
\* nothing and leaves the generator in its loop, ready for the next read; a
\* sample is only ever yielded by an attempt that read 5 bytes.
C7_ShortReadNonFatal ==
    [][/\ (gen = "running" /\ Len(lastRead') < FRAME_LEN) =>
            (out' = out /\ gen' = "running" /\ err' = err /\ serial' = "open")
       /\ out' # out => (gen = "running" /\ Len(lastRead') = FRAME_LEN)]_vars

\* bytes were lost to a short read, the generator is still looping after
\* another short read, and a sample has been yielded in between
C7_Witness ==
    /\ Len(lastRead) \in 1..(FRAME_LEN - 1)
    /\ gen = "running"
    /\ Len(out) > 0
    /\ Len(reads) * FRAME_LEN + Len(lastRead) + Len(rx) + Len(line) < Len(Flatten(sent))

\* C8: a consumer inside next(read_scan_data()) eventually regains control,
\* also when the transport delivers only timeouts or filtered frames.
C8_StallReported == (gen = "running") ~> (gen = "idle")

(***************************************************************************)
(* Claims about the scan lifecycle, for a caller of the driver.            *)
(***************************************************************************)
\* a step that is a stop_scan() called right after a stop_scan()
SecondStop == lastCall = "stop_scan" /\ lastCall' = "stop_scan" /\ ops' = ops + 1

\* C9 as claimed: a stop_scan() called right after a stop_scan() that returned
\* changes nothing: it raises nothing, writes nothing more to the device and
\* leaves the transport, the device and the session as the first call left them.
C9_SecondStopIsNoOp ==
    [][(SecondStop /\ err = "ok")
          => /\ err' = "ok"
             /\ tx' = tx
             /\ <<serial', rx', dev', session'>> = <<serial, rx, dev, session>>]_vars

\* C9 amended: a stop_scan() called right after a stop_scan() ends as the
\* first did and leaves the driver, the input buffer, the device and the
\* session as the first call left them (port as it was, input buffer empty,
\* device idle, session Idle after a first call that returned); it is not
\* silent: after a first call that returned it writes the Stop request A5 25
\* once more, and after one that raised (port not open) it raises again and
\* writes nothing.
C9_SecondStopSameState ==
    [][SecondStop
          => /\ err' = err
             /\ <<serial', rx', dev', session', startFailed'>> =
                  <<serial, rx, dev, session, startFailed>>
             /\ err = "ok" => /\ tx' = tx \o <<165, 37>>
                              /\ rx' = <<>>
                              /\ dev' = "idle"
                              /\ session' = "Idle"
             /\ err # "ok" => (err' = "raise" /\ tx' = tx /\ serial # "open")]_vars

\* two stop_scan() calls in a row have returned on a port whose device had
\* been scanning and had sent a frame
C9_Witness ==
    /\ lastCall = "stop_scan"
    /\ err = "ok"
    /\ Len(tx) >= 6
    /\ SubSeq(tx, Len(tx) - 3, Len(tx)) = <<165, 37, 165, 37>>
    /\ sent # <<>>
    /\ rx = <<>>

\* C10: while the session is Idle (no start_scan() has succeeded since the
\* start or since the last stop_scan() returned) read_scan_data() yields no
\* sample, whatever the transport delivers.
C10_NoSampleWhileIdle == [][session = "Idle" => out' = out]_vars

(***************************************************************************)
(* Claims about main() of 3dplot.py and its worker.                        *)
(***************************************************************************)
\* C4: a start_scan() whose descriptor read returned fewer than 7 bytes, or 7
\* bytes not starting with A5 5A, raises to its caller and leaves the session
\* Idle; after a failed start_scan() main() never starts the scan worker and
\* never pulls from read_scan_data(), so no sample is produced.
C4_FailedStartNoStream ==
    /\ (lastCall = "start_scan" /\ (Len(lastDesc) < 7 \/ lastDesc[1] # 165 \/ lastDesc[2] # 90))
          => (err = "raise" /\ startFailed)
    /\ startFailed =>
         /\ session = "Idle"
         /\ pc \in {"finally", "stop_scan", "disconnect", "done", "crashed"}
         /\ wpc = "unstarted"
         /\ gen = "idle"
         /\ out = <<>>
         /\ lidar_data.angles = <<>>

\* main() has ended after a start_scan() that read 7 bytes with wrong sync bytes
C4_Witness ==
    /\ startFailed
    /\ Len(lastDesc) = 7
    /\ lastDesc[1] # 165
    /\ dev = "idle"
    /\ pc = "done"

LastOf(q, n) == SubSeq(q, Len(q) - Min(n, Len(q)) + 1, Len(q))

\* the field fld of the first n samples yielded
Yielded(fld, n) == [i \in 1..n |-> out[i][fld]]

\* samples the worker has appended in full
Appended == Len(out) - (IF wpc \in {"acquire", "append_a", "append_d", "append_q"} THEN 1 ELSE 0)

\* C6: every sample the decoder yields is appended once, in the order yielded,
\* to the tail of each deque: each deque holds the most recent (at most
\* BufMaxLen) samples appended to it, a contiguous in-order run of the yielded
\* sequence that ends with the last sample yielded, or with the one before it
\* while the worker is still handing the last one over.
C6_BufferIsSuffix ==
    /\ lidar_data.angles =
         LastOf(Yielded("angle", Appended + (IF wpc \in {"append_d", "append_q"} THEN 1 ELSE 0)),
                BufMaxLen)
    /\ lidar_data.distances =
         LastOf(Yielded("distance", Appended + (IF wpc = "append_q" THEN 1 ELSE 0)), BufMaxLen)
    /\ lidar_data.qualities = LastOf(Yielded("quality", Appended), BufMaxLen)
    /\ wpc \in {"acquire", "append_a", "append_d", "append_q"} => wdata = out[Len(out)]

\* more samples than the deques hold have gone through, the last two differ,
\* and the deques hold exactly those two
C6_Witness ==
    /\ Len(out) > BufMaxLen
    /\ wpc = "loop"
    /\ out[Len(out)] # out[Len(out) - 1]
    /\ Len(lidar_data.angles) = BufMaxLen
    /\ lidar_data.qualities[BufMaxLen] = out[Len(out)].quality
    /\ lidar_data.qualities[BufMaxLen - 1] = out[Len(out) - 1].quality

\* C11: main() never ends by an exception that leaves its finally clause
\* (every failure during the cleanup is contained), and once main() is over,
\* with or without such a failure, the transport is not left open.
C11_CleanupContained ==
    /\ pc # "crashed"
    /\ pc \in {"done", "crashed"} => serial # "open"

\* the scan_worker thread has been started and has not ended
WorkerAlive == wpc \in {"loop", "next", "acquire", "append_a", "append_d", "append_q"}

\* C12: once the finally clause of main() has set running to False, a worker
\* that was started eventually ends (and join() can return), whatever the
\* transport delivers from then on.
C12_WorkerTerminates == (running = FALSE /\ WorkerAlive) ~> (wpc = "done")

(***************************************************************************)
(* Claims about the requests and replies of the driver.                    *)
(***************************************************************************)
\* C13: a get_info() or get_health() call on an open port returns normally
\* only with the dict decoded from a full payload read after a full
\* descriptor; when fewer than 7 descriptor bytes or fewer payload bytes than
\* the reply has (20, 3) arrive, the call raises.
C13_ShortReadRaises ==
    lastCall \in {"get_info", "get_health"} =>
        /\ err \in {"ok", "raise"}
        /\ Len(lastDesc) < 7 => err = "raise"
        /\ err = "ok" => (Len(lastDesc) = 7 /\ ret # [none |-> TRUE])

\* the value of a digit character, and of a string of decimal digits
RefDigit(c) == CHOOSE d \in 0..15 : HexDigits[d + 1] = c

RECURSIVE RefDecimal(_)
RefDecimal(str) ==
    IF str = <<>> THEN 0
    ELSE 10 * RefDecimal(SubSeq(str, 1, Len(str) - 1)) + RefDigit(str[Len(str)])

\* C14: the dict get_info() returns for the payload p the device sent has
\* model = p[0], hardware = p[3], firmware "major.minor" with major = p[2] and
\* minor = p[1] in decimal, and serial_number the hex digits of p[4..19] in
\* wire order; the dict get_health() returns has status = p[0] and
\* error_code = p[1] + 256 * p[2].
C14_RepliesDecoded ==
    /\ (lastCall = "get_info" /\ err = "ok") =>
         LET p  == reply.info
             fw == ret.firmware
             sn == ret.serial_number
         IN  /\ ret.model = p[1]
             /\ ret.hardware = p[4]
             /\ \E i \in 1..Len(fw) :
                  /\ fw[i] = "."
                  /\ i > 1 /\ i < Len(fw)
                  /\ RefDecimal(SubSeq(fw, 1, i - 1)) = p[3]
                  /\ RefDecimal(SubSeq(fw, i + 1, Len(fw))) = p[2]
             /\ Len(sn) = 32
             /\ \A i \in 1..16 : 16 * RefDigit(sn[2 * i - 1]) + RefDigit(sn[2 * i]) = p[4 + i]
    /\ (lastCall = "get_health" /\ err = "ok") =>
         /\ ret.status = reply.health[1]
         /\ ret.error_code = reply.health[2] + 256 * reply.health[3]

\* get_info() has returned the dict of the payload 18, 5, 1, 0 and sixteen
\* zero bytes: model 18, firmware "1.5", hardware 0, serial number all zero
C14_Witness ==
    /\ lastCall = "get_info"
    /\ err = "ok"
    /\ reply.info = <<18, 5, 1, 0>> \o [i \in 1..16 |-> 0]
    /\ ret = [model |-> 18, firmware |-> <<"1", ".", "5">>, hardware |-> 0,
              serial_number |-> [i \in 1..32 |-> "0"]]

\* the operations that write a request, and the opcode of each
Requesting == {"get_info", "get_health", "stop_scan", "reset", "start_scan"}

RefOpcode(call) ==
    CASE call = "get_info" -> 80
      [] call = "get_health" -> 82
      [] call = "stop_scan" -> 37
      [] call = "reset" -> 64
      [] call = "start_scan" -> 32

\* C15: a call of get_info, get_health, stop_scan, reset or start_scan on an
\* open port writes exactly the two bytes A5 and its opcode, once; whatever a
\* call on a quiet port reads, it reads after having written its request; no
\* other step writes anything (a call on a port that is not open, connect,
\* disconnect, a pull of read_scan_data, a read, the device); and the byte
\* 0x82 is never written.
C15_RequestsExact ==
    [][/\ (ops' = ops + 1 /\ lastCall' \in Requesting /\ serial = "open")
            => tx' = tx \o <<165, RefOpcode(lastCall')>>
       /\ (ops' = ops + 1 /\ ~(lastCall' \in Requesting /\ serial = "open")) => tx' = tx
       /\ ops' = ops => tx' = tx
       /\ (ops' = ops + 1 /\ lastCall' \in Requesting /\ rx = <<>> /\ line = <<>>
             /\ lastDesc' # <<>>)
            => Len(tx') = Len(tx) + 2
       /\ \A i \in 1..Len(tx') : tx'[i] # 130]_vars

\* get_info(), start_scan() and stop_scan() have each written their request
C15_Witness ==
    /\ tx = <<165, 80, 165, 32, 165, 37>>
    /\ lastCall = "stop_scan"
    /\ err = "ok"

(***************************************************************************)
(* Claims about the threads of 3dplot.py.                                  *)
(***************************************************************************)
\* C16: a thread that is at an access to the lidar_data deques holds
\* data_lock: the worker at its appends, update_graph from its first look at
\* the deques to its last (the statistics included).
C16_AccessUnderLock ==
    /\ wpc \in {"append_a", "append_d", "append_q"} => lock = "worker"
    /\ upc \in {"locked", "copied", "stats"} => lock = "update"

\* C17: the worker, holding a sample it has just decoded, never waits for
\* data_lock while update_graph holds it after having copied the deques, that
\* is while the copies are thinned out and converted and the figure is built.
C17_WorkerNeverWaitsOnFigure ==
    ~(wpc = "acquire" /\ lock = "update" /\ upc = "copied")

\* C18: while the worker thread is alive main() is at none of its driver
\* calls (it is serving, or in its finally clause before join() has
\* returned), and main() is at stop_scan() or disconnect() only with the
\* worker never started or ended; while the worker is alive nothing is
\* written to the transport, the port is not closed, and the input buffer is
\* changed only by a read of the worker inside next().
C18_TransportOwnedByWorker ==
    /\ [](WorkerAlive => pc \in {"serve", "finally", "join"})
    /\ [](pc \in {"stop_scan", "disconnect", "done"} => wpc \in {"unstarted", "done"})
    /\ [][WorkerAlive =>
            /\ serial' = serial
            /\ tx' = tx
            /\ (rx' # rx \/ lastRead' # lastRead) => (wpc = "next" /\ pc' = pc)]_vars

\* main() has ended in order after a worker that had delivered a sample: the
\* worker had ended before stop_scan() wrote its request and the port was closed
C18_Witness ==
    /\ pc = "done"
    /\ wpc = "done"
    /\ out # <<>>
    /\ serial = "closed"
    /\ SubSeq(tx, Len(tx) - 1, Len(tx)) = <<165, 37>>

\* C19: a stop_scan() that returns has written A5 25 and leaves the input
\* buffer empty, the bytes that arrived while it waited included; and when
\* nothing more of the old scan is on its way, the start_scan() called next
\* reads its descriptor from the first byte of the device's answer to its own
\* request, and succeeds when all 7 bytes arrive.
C19_StopLeavesCleanStart ==
    /\ []((lastCall = "stop_scan" /\ err = "ok")
            => (rx = <<>> /\ Len(tx) >= 2 /\ SubSeq(tx, Len(tx) - 1, Len(tx)) = <<165, 37>>))
    /\ [][(lastCall = "stop_scan" /\ err = "ok" /\ line = <<>>
            /\ lastCall' = "start_scan" /\ ops' = ops + 1)
          => /\ lastDesc' = SubSeq(<<165, 90, 5, 0, 0, 64, 129>>, 1, Len(lastDesc'))
             /\ Len(lastDesc') = 7 => (err' = "ok" /\ session' = "Scanning")
             /\ Len(lastDesc') < 7 => err' = "raise"]_vars

\* a scan was started, a frame was sent, stop_scan() returned and the next
\* start_scan() read the whole descriptor and succeeded
C19_Witness ==
    /\ lastCall = "start_scan"
    /\ err = "ok"
    /\ tx = <<165, 32, 165, 37, 165, 32>>
    /\ sent # <<>>
    /\ lastDesc = <<165, 90, 5, 0, 0, 64, 129>>
    /\ rx = <<>>

(***************************************************************************)
(* Claims about the range of the samples.                                  *)
(***************************************************************************)
\* C20: every sample yielded has quality in 1..63, distance_raw in 1..65535
\* (distance = distance_raw / 4) and angle_raw below 23040, that is an angle
\* (angle_raw / 64) in [0, 360) degrees.
C20_SampleInRange ==
    \A i \in 1..Len(out) :
        /\ out[i].quality \in 1..63
        /\ out[i].distance.d = 4 /\ out[i].distance.n \in 1..65535
        /\ out[i].angle.d = 64 /\ out[i].angle.n >= 0 /\ out[i].angle.n < 23040

(***************************************************************************)
(* Claims about a transport that fails while scanning.                     *)
(***************************************************************************)
\* the worker ends with running still True only from its except clause, that
\* is after serial.read raised inside next()
ReadFailed == wpc = "done" /\ running

\* C21: a read that raises inside next() in scan_worker is surfaced to
\* main(): once the worker has ended on such a failure, main() leaves
\* app.run() and comes to set running = False in its finally clause; and the
\* worker does not retry: it stays ended and no further read is made.
C21_ReadFailurePropagated ==
    /\ ReadFailed ~> (running = FALSE)
    /\ [][wpc = "done" =>
            (wpc' = "done" /\ gen' = gen /\ lastRead' = lastRead /\ reads' = reads
             /\ out' = out)]_vars

(***************************************************************************)
(* Claims about the buffers shared by the threads of 3dplot.py.            *)
(***************************************************************************)
\* C22: whenever scan_worker does not hold data_lock, the three deques of
\* lidar_data have the same length, at most the deques' maxlen, and at every
\* index the three entries are the angle, distance and quality of one and
\* the same sample that read_scan_data() yielded.
C22_DequesParallel ==
    lock # "worker" =>
        /\ Len(lidar_data.angles) = Len(lidar_data.distances)
        /\ Len(lidar_data.distances) = Len(lidar_data.qualities)
        /\ Len(lidar_data.angles) <= BufMaxLen
        /\ \A i \in 1..Len(lidar_data.angles) :
               \E j \in 1..Len(out) :
                   /\ out[j].angle = lidar_data.angles[i]
                   /\ out[j].distance = lidar_data.distances[i]
                   /\ out[j].quality = lidar_data.qualities[i]

\* the worker has released data_lock after an append that dropped the oldest
\* entry of each full deque, and the deques hold two samples that differ in
\* angle and in quality
C22_Witness ==
    /\ lock # "worker"
    /\ wpc \in {"loop", "next"}
    /\ Len(out) > BufMaxLen
    /\ Len(lidar_data.angles) = BufMaxLen
    /\ lidar_data.angles[1] # lidar_data.angles[BufMaxLen]
    /\ lidar_data.qualities[1] # lidar_data.qualities[BufMaxLen]

(***************************************************************************)
(* Claims about the two copies of the driver.                              *)
(***************************************************************************)
\* C23: on one transport behaviour the four runs (2dplot.py's and
\* 3dplot.py's read_scan_data(), each iterated as one generator and each
\* pulled with next() on a new generator per sample) have yielded the same
\* number of samples, with the same angle, distance and quality at every
\* position; a sample of 2dplot.py carries start_flag in addition and a
\* sample of 3dplot.py nothing else.
C23_CopiesAgree ==
    /\ \A r1 \in Runs, r2 \in Runs :
         /\ Len(outs[r1]) = Len(outs[r2])
         /\ \A i \in 1..Len(outs[r1]) :
              /\ outs[r1][i].angle = outs[r2][i].angle
              /\ outs[r1][i].distance = outs[r2][i].distance
              /\ outs[r1][i].quality = outs[r2][i].quality
    /\ \A r \in Runs : \A i \in 1..Len(outs[r]) :
         DOMAIN outs[r][i] = IF r[1] = "2d"
                               THEN {"angle", "distance", "quality", "start_flag"}
                               ELSE {"angle", "distance", "quality"}

\* every run has yielded two samples that differ, some full read was
\* filtered out or some bytes were lost to a short read, and every byte sent
\* has been read
C23_Witness ==
    /\ \A r \in Runs : Len(outs[r]) = 2 /\ outs[r][1].angle # outs[r][2].angle
    /\ Len(reads) > 2 \/ 5 * Len(reads) < Len(Flatten(sent))
    /\ rx = <<>>
    /\ line = <<>>

====
